---------------------------- MODULE Spec2Model ----------------------------
(***************************************************************************)
(* Model of the snapshot comparison run of price_comparison_analysis.py:   *)
(* FlightPriceComparator.generate_comparison_report and the methods it     *)
(* calls (compare_snapshots, analyze_ota_changes, analyze_route_changes,   *)
(* create_comparison_visualizations), over snapshot tables of the shape    *)
(* fetch_prices.py writes.                                                 *)
(*                                                                         *)
(* Numbers.  The program computes in IEEE doubles; the model computes the  *)
(* same quantities exactly, as reduced fractions, and keeps the three      *)
(* non-finite outcomes of a division by zero (inf, -inf, nan) apart.       *)
(* A value is a record [kind, n, d]: kind "num" stands for n/d (d > 0,     *)
(* gcd(n, d) = 1), the other kinds carry n = 0, d = 1.  A value rounded    *)
(* by DataFrame.round(2) is a record [kind, c] with c in hundredths.       *)
(***************************************************************************)
EXTENDS Integers, Sequences, FiniteSets

VARIABLES snapshots, pc, comparison_df, ota_analysis, route_analysis,
          results_dir, error

vars == <<snapshots, pc, comparison_df, ota_analysis, route_analysis,
          results_dir, error>>

---------------------------------------------------------------------------
(* Bounds of the model *)

\* Largest number of rows of one snapshot table.
MaxRows == 2

\* The (origin, destination) pairs of the monitored routes that the
\* key-rich specification draws from, in the order of ROUTES.
ROUTES == << <<"BCN", "MAD">>, <<"IST", "NRT">> >>

\* The selling agents ("gate" column), in ascending order.
Gates == <<"AgentX", "AgentY">>

\* The flight keys of the model: the first differs from the second in the
\* agent, from the third in the departure date, from the fourth in all
\* columns.
FlightKeys ==
    <<[origin |-> "BCN", destination |-> "MAD",
       depart_date |-> "2025-07-01", gate |-> "AgentX"],
      [origin |-> "BCN", destination |-> "MAD",
       depart_date |-> "2025-07-01", gate |-> "AgentY"],
      [origin |-> "BCN", destination |-> "MAD",
       depart_date |-> "2025-08-10", gate |-> "AgentX"],
      [origin |-> "IST", destination |-> "NRT",
       depart_date |-> "2025-08-10", gate |-> "AgentY"]>>

\* Prices (EUR) of the key-rich specification, those of the older and
\* those of the newer snapshot.
JoinOldPrices == {80}
JoinNewPrices == {80, 84}

\* Prices (EUR) of the price-rich specification, those of the older and
\* those of the newer snapshot.  They hold zero, the pairs on the cut
\* points, 80->84 (5%), 80->76 (-5%), 100->101 (1%), 100->99 (-1%), the
\* pair 100->110, 100->90 (10% and -10%), and 76->79 with 84->79, whose
\* mean is -1.0025%.
OldPrices == {0, 76, 80, 84, 100}
NewPrices == {0, 76, 79, 84, 90, 99, 101, 110}

\* The two snapshot dates of the run (YYYYMMDD), date1 the earlier.
date1 == "20250617"
date2 == "20250618"
Dates == {date1, date2}

---------------------------------------------------------------------------
(* Exact arithmetic *)

Abs(x) == IF x < 0 THEN -x ELSE x

RECURSIVE GCD(_, _)
GCD(a, b) == IF b = 0 THEN a ELSE GCD(b, a % b)

LCM(a, b) == (a \div GCD(a, b)) * b

\* The finite value n/d, d # 0, in lowest terms with a positive denominator.
Num(n, d) ==
    LET s == IF d < 0 THEN -1 ELSE 1
        g == GCD(Abs(n), Abs(d))
    IN  [kind |-> "num", n |-> (s * n) \div g, d |-> (s * d) \div g]

PosInf == [kind |-> "inf", n |-> 0, d |-> 1]
NegInf == [kind |-> "-inf", n |-> 0, d |-> 1]
NaN == [kind |-> "nan", n |-> 0, d |-> 1]

\* Float division a / b of two integers as numpy does it: a nonzero
\* numerator over zero is a signed infinity, 0 / 0 is nan, no exception.
FloatDiv(a, b) ==
    IF b # 0 THEN Num(a, b)
    ELSE IF a > 0 THEN PosInf
    ELSE IF a < 0 THEN NegInf
    ELSE NaN

\* x * k for an integer k > 0.
Scale(x, k) == IF x.kind = "num" THEN Num(x.n * k, x.d) ELSE x

\* Comparisons of a value with an integer; every comparison with nan is
\* false, as for a float.
Le(x, k) ==
    \/ x.kind = "-inf"
    \/ x.kind = "num" /\ x.n <= k * x.d

\* Order of two values, for min and max; not used on nan.
Less(x, y) ==
    CASE x.kind = "-inf" -> y.kind # "-inf"
      [] x.kind = "inf" -> FALSE
      [] y.kind = "-inf" -> FALSE
      [] y.kind = "inf" -> TRUE
      [] OTHER -> x.n * y.d < y.n * x.d


---------------------------------------------------------------------------
(* Snapshot tables *)

\* The join columns of compare_snapshots.
merge_cols == <<"origin", "destination", "depart_date", "gate">>

\* The FlightKey of a row: its values in the join columns.
Key(row) == [i \in 1..Len(merge_cols) |-> row[merge_cols[i]]]

\* The rows a snapshot may hold for the flight keys of the given indices
\* and the given prices.
Row(k, p) ==
    [origin |-> k.origin, destination |-> k.destination,
     depart_date |-> k.depart_date, gate |-> k.gate, price_eur |-> p]

Rows(keys, prices) == {Row(FlightKeys[i], p) : i \in keys, p \in prices}

\* fetch_prices.main concatenates the per-route tables in the order of
\* ROUTES, and the feed returns each route's fares sorted by price: a
\* stored table is ordered by route, then by price.  Rows of one route and
\* price come in any order.
RouteIndex(row) ==
    CHOOSE i \in 1..Len(ROUTES) :
        ROUTES[i] = <<row.origin, row.destination>>

StoredOrder(a, b) ==
    \/ RouteIndex(a) < RouteIndex(b)
    \/ RouteIndex(a) = RouteIndex(b) /\ a.price_eur <= b.price_eur

\* The non-empty tables of at most MaxRows rows that fetch_prices can
\* have written (it writes all_routes.csv only when it has rows).
Tables(rows) ==
    {t \in UNION {[1..n -> rows] : n \in 1..MaxRows} :
        \A i \in 1..(Len(t) - 1) : StoredOrder(t[i], t[i + 1])}

---------------------------------------------------------------------------
(* compare_snapshots *)

\* pd.merge(df2[...], df1[...], on=merge_cols, suffixes=('_new','_old'),
\* how='inner'): one row per pair of a left (df2) row and a right (df1)
\* row with equal keys, in the order of the left rows.
\* The suffixes exchanged: the left (df2) price lands in price_eur_old.
MergedRowSwapped(new, old) ==
    [origin |-> new.origin, destination |-> new.destination,
     depart_date |-> new.depart_date, gate |-> new.gate,
     price_eur_new |-> old.price_eur, price_eur_old |-> new.price_eur]

MergedRow(new, old) ==
    [origin |-> new.origin, destination |-> new.destination,
     depart_date |-> new.depart_date, gate |-> new.gate,
     price_eur_new |-> new.price_eur, price_eur_old |-> old.price_eur]

\* A join that looks the key up and keeps the first match only.
MatchesOfFirst(l, right) ==
    LET m == SelectSeq(right, LAMBDA r : Key(r) = Key(l))
    IN  IF Len(m) = 0 THEN <<>> ELSE <<MergedRow(l, m[1])>>

MatchesOf(l, right) ==
    LET m == SelectSeq(right, LAMBDA r : Key(r) = Key(l))
    IN  [j \in 1..Len(m) |-> MergedRow(l, m[j])]

RECURSIVE MergeFrom(_, _, _)
MergeFrom(left, right, i) ==
    IF i > Len(left) THEN <<>>
    ELSE MatchesOf(left[i], right) \o MergeFrom(left, right, i + 1)

merge(left, right) == MergeFrom(left, right, 1)

\* The size of the change, without its direction.
price_diff_abs(m) == Abs(m.price_eur_new - m.price_eur_old)

\* merged['price_diff'] = merged['price_eur_new'] - merged['price_eur_old']
price_diff(m) == m.price_eur_new - m.price_eur_old

\* merged['change_pct'] = (merged['price_diff'] / merged['price_eur_old']) * 100
change_pct(m) == Scale(FloatDiv(price_diff(m), m.price_eur_old), 100)

\* merged['route'] = merged['origin'] + ' → ' + merged['destination']
route(m) == m.origin \o " → " \o m.destination

\* pd.cut(change_pct, bins=[-inf, -5, -1, 1, 5, inf], labels=[...]): the
\* bins are open on the left and closed on the right (right=True), a
\* value in no bin (nan, and -inf, which the first bin leaves out) gets
\* no label.
NoLabel == "NaN"
labels == <<"Major Drop (>5%)", "Minor Drop (1-5%)", "Stable (±1%)",
            "Minor Increase (1-5%)", "Major Increase (>5%)">>

\* pd.cut with right=False: the bins closed on the left and open on the
\* right.
StrictlyBelow(x, k) ==
    \/ x.kind = "-inf"
    \/ x.kind = "num" /\ x.n < k * x.d

cut_left_closed(x) ==
    IF x.kind \in {"nan", "inf"} THEN NoLabel
    ELSE IF StrictlyBelow(x, -5) THEN labels[1]
    ELSE IF StrictlyBelow(x, -1) THEN labels[2]
    ELSE IF StrictlyBelow(x, 1) THEN labels[3]
    ELSE IF StrictlyBelow(x, 5) THEN labels[4]
    ELSE labels[5]

cut(x) ==
    IF x.kind \in {"nan", "-inf"} THEN NoLabel
    ELSE IF Le(x, -5) THEN labels[1]
    ELSE IF Le(x, -1) THEN labels[2]
    ELSE IF Le(x, 1) THEN labels[3]
    ELSE IF Le(x, 5) THEN labels[4]
    ELSE labels[5]

DeltaRecord(m) ==
    [origin |-> m.origin, destination |-> m.destination,
     depart_date |-> m.depart_date, gate |-> m.gate,
     price_eur_new |-> m.price_eur_new, price_eur_old |-> m.price_eur_old,
     price_diff |-> price_diff(m), change_pct |-> change_pct(m),
     route |-> route(m), change_type |-> cut(change_pct(m))]

\* The table compare_snapshots returns for the loaded tables df1 (date1)
\* and df2 (date2).
compare_snapshots(df1, df2) ==
    LET merged == merge(df2, df1)
    IN  [i \in 1..Len(merged) |-> DeltaRecord(merged[i])]

---------------------------------------------------------------------------
(* groupby(...).agg(...).round(2) *)

Add(x, y) ==
    LET l == LCM(x.d, y.d)
    IN  Num(x.n * (l \div x.d) + y.n * (l \div y.d), l)

RECURSIVE SumFrom(_, _)
SumFrom(vals, i) ==
    IF i > Len(vals) THEN Num(0, 1)
    ELSE Add(vals[i], SumFrom(vals, i + 1))

\* An integer column as values.
AsValues(ints) == [i \in 1..Len(ints) |-> Num(ints[i], 1)]

Column(df, col) == [i \in 1..Len(df) |-> df[i][col]]

\* The aggregations skip nan (skipna).
NotNa(vals) == SelectSeq(vals, LAMBDA v : v.kind # "nan")

Has(vals, kind) == \E i \in 1..Len(vals) : vals[i].kind = kind

\* A count of the distinct non-nan values.
count_distinct(vals) ==
    LET v == NotNa(vals) IN Cardinality({v[i] : i \in 1..Len(v)})

\* 'count': the number of non-nan values.
count(vals) == Len(NotNa(vals))

\* 'mean': nan for no value or for inf and -inf together, an infinity if
\* one occurs, else the exact mean.
mean(vals) ==
    LET v == NotNa(vals)
        f == SelectSeq(v, LAMBDA x : x.kind = "num")
    IN  IF Len(v) = 0 \/ (Has(v, "inf") /\ Has(v, "-inf")) THEN NaN
        ELSE IF Has(v, "inf") THEN PosInf
        ELSE IF Has(v, "-inf") THEN NegInf
        ELSE LET s == SumFrom(f, 1) IN Num(s.n, s.d * Len(f))

RECURSIVE Extreme(_, _, _)
Extreme(vals, i, least) ==
    IF i = Len(vals) THEN vals[i]
    ELSE LET rest == Extreme(vals, i + 1, least)
             first == IF least THEN Less(vals[i], rest)
                      ELSE Less(rest, vals[i])
         IN  IF first THEN vals[i] ELSE rest

\* 'min' and 'max': nan for no value.
min(vals) ==
    LET v == NotNa(vals) IN IF Len(v) = 0 THEN NaN ELSE Extreme(v, 1, TRUE)
max(vals) ==
    LET v == NotNa(vals) IN IF Len(v) = 0 THEN NaN ELSE Extreme(v, 1, FALSE)

\* 'std' of an integer column: the sample standard deviation (ddof=1),
\* nan for fewer than two values.  The model carries its square, the
\* sample variance (k * sum(d^2) - sum(d)^2) / (k * (k - 1)), and takes
\* neither the root nor the rounding: it is zero exactly when the standard
\* deviation is.
std(ints) ==
    LET k == Len(ints)
        s1 == SumFrom(AsValues(ints), 1).n
        s2 == SumFrom(AsValues([i \in 1..k |-> ints[i] * ints[i]]), 1).n
    IN  IF k < 2 THEN NaN ELSE Num(k * s2 - s1 * s1, k * (k - 1))

\* 'nunique': the number of distinct values.
nunique(vals) == Cardinality({vals[i] : i \in 1..Len(vals)})

\* round(2) of a value: the nearest multiple of 0.01, a tie going to the
\* even one (numpy rounds half to even); the result is in hundredths.
\* Non-finite values stay as they are.
round2(x) ==
    IF x.kind # "num" THEN [kind |-> x.kind, c |-> 0]
    ELSE LET q == x.n \div x.d
             h == 100 * (x.n % x.d)
             hq == h \div x.d
             hr == h % x.d
             down == 100 * q + hq
         IN  [kind |-> "num",
              c |-> IF 2 * hr < x.d THEN down
                    ELSE IF 2 * hr > x.d THEN down + 1
                    ELSE IF down % 2 = 0 THEN down ELSE down + 1]

\* The rows of df whose column col is k, and the group keys of df in
\* ascending order (groupby sorts the keys); keys lists every possible
\* key in ascending order.
Group(df, col, k) == SelectSeq(df, LAMBDA r : r[col] = k)

GroupKeys(df, col, keys) ==
    SelectSeq(keys, LAMBDA k : \E i \in 1..Len(df) : df[i][col] = k)

\* Every agent and every route string, in ascending (lexicographic) order.
SortedGates == Gates
SortedRoutes == [i \in 1..Len(ROUTES) |-> ROUTES[i][1] \o " → " \o ROUTES[i][2]]

---------------------------------------------------------------------------
(* sort_values('avg_change_pct', ascending=False) *)

\* x orders strictly below y; both rounded values, neither nan.
RoundedLess(x, y) ==
    CASE x.kind = "-inf" -> y.kind # "-inf"
      [] x.kind = "inf" -> FALSE
      [] y.kind = "-inf" -> FALSE
      [] y.kind = "inf" -> TRUE
      [] OTHER -> x.c < y.c

IndexOrders(n) ==
    {p \in [1..n -> 1..n] : \A i, j \in 1..n : i # j => p[i] # p[j]}

\* The orders sort_values can return for the table t: descending by
\* avg_change_pct, the nan rows last in their original order
\* (na_position='last').  The sort is numpy's default 'quicksort', which
\* is not stable: rows with equal avg_change_pct come out in whichever
\* order the build's sort leaves them.
sort_values(t) ==
    LET n == Len(t)
        IsNa(i) == t[i].avg_change_pct.kind = "nan"
        Sorted(p) ==
            \A i, j \in 1..n : i < j =>
                /\ IsNa(p[i]) => IsNa(p[j])
                /\ IsNa(p[i]) /\ IsNa(p[j]) => p[i] < p[j]
                /\ ~IsNa(p[i]) /\ ~IsNa(p[j]) =>
                     ~RoundedLess(t[p[i]].avg_change_pct,
                                  t[p[j]].avg_change_pct)
    IN  {[i \in 1..n |-> t[p[i]]] : p \in {q \in IndexOrders(n) : Sorted(q)}}

---------------------------------------------------------------------------
(* analyze_ota_changes, analyze_route_changes *)

\* The strategy label of a (rounded) avg_change_pct x.  A comparison with
\* nan is false, so a nan falls through to the last label.
pricing_strategy(x) ==
    IF x.kind = "inf" \/ (x.kind = "num" /\ x.c > 500)
        THEN "Aggressive Increase"
    ELSE IF x.kind = "num" /\ x.c > 100 THEN "Moderate Increase"
    ELSE IF x.kind = "num" /\ Abs(x.c) <= 100 THEN "Stable"
    ELSE IF x.kind = "num" /\ x.c > -500 THEN "Moderate Decrease"
    ELSE "Aggressive Decrease"

\* One row of groupby('gate').agg({...}).round(2) with its strategy label.
OtaRow(df, k) ==
    LET g == Group(df, "gate", k)
        diffs == Column(g, "price_diff")
        pcts == Column(g, "change_pct")
        avg == round2(mean(pcts))
    IN  [gate |-> k,
         total_flights |-> count(AsValues(diffs)),
         avg_price_diff |-> round2(mean(AsValues(diffs))),
         std_price_diff |-> std(diffs),
         avg_change_pct |-> avg,
         min_change_pct |-> round2(min(pcts)),
         max_change_pct |-> round2(max(pcts)),
         avg_current_price |-> round2(mean(AsValues(Column(g, "price_eur_new")))),
         pricing_strategy |-> pricing_strategy(avg)]

\* The tables analyze_ota_changes can return for the table df.
analyze_ota_changes(df) ==
    LET keys == GroupKeys(df, "gate", SortedGates)
    IN  sort_values([i \in 1..Len(keys) |-> OtaRow(df, keys[i])])

\* One row of groupby('route').agg({...}).round(2).
RouteRow(df, k) ==
    LET g == Group(df, "route", k)
        diffs == Column(g, "price_diff")
        pcts == Column(g, "change_pct")
    IN  [route |-> k,
         total_flights |-> count(AsValues(diffs)),
         avg_price_diff |-> round2(mean(AsValues(diffs))),
         std_price_diff |-> std(diffs),
         avg_change_pct |-> round2(mean(pcts)),
         min_change_pct |-> round2(min(pcts)),
         max_change_pct |-> round2(max(pcts)),
         num_otas |-> nunique(Column(g, "gate"))]

\* The tables analyze_route_changes can return for the table df.
analyze_route_changes(df) ==
    LET keys == GroupKeys(df, "route", SortedRoutes)
    IN  sort_values([i \in 1..Len(keys) |-> RouteRow(df, keys[i])])

---------------------------------------------------------------------------
(* generate_comparison_report: the run *)

\* The files of the snapshots directory: snapshots[d].exists tells whether
\* <d>/all_routes.csv is there, snapshots[d].rows is the table it holds.
Missing == [exists |-> FALSE, rows |-> <<>>]
Stored(tables) == {[exists |-> TRUE, rows |-> t] : t \in tables}

\* The names of the files a run writes into the results directory.
chart_file == "price_comparison_" \o date1 \o "_to_" \o date2 \o ".png"
results_file == "detailed_comparison_" \o date1 \o "_to_" \o date2 \o ".csv"
ota_file == "ota_analysis_" \o date1 \o "_to_" \o date2 \o ".csv"
route_file == "route_analysis_" \o date1 \o "_to_" \o date2 \o ".csv"
Outputs == {chart_file, results_file, ota_file, route_file}

\* load_snapshot raises FileNotFoundError for a date without a file.
load_snapshot(d) == snapshots[d].rows

\* A loader that looks for the file of date1 only and reads a missing file
\* of date2 as an empty table.
SnapshotExistsFirst(d) == d = date1 => snapshots[d].exists

SnapshotExists(d) == snapshots[d].exists

InitWith(tables1, tables2) ==
    /\ \E s1 \in Stored(tables1) \cup {Missing},
          s2 \in Stored(tables2) \cup {Missing} :
            snapshots = [d \in Dates |-> IF d = date1 THEN s1 ELSE s2]
    /\ pc = "start"
    /\ comparison_df = <<>>
    /\ ota_analysis = <<>>
    /\ route_analysis = <<>>
    /\ results_dir = {}
    /\ error = "none"

\* Every flight key at the prices of JoinOldPrices, respectively
\* JoinNewPrices: the join and the grouping.
Init ==
    InitWith(Tables(Rows(1..Len(FlightKeys), JoinOldPrices)),
             Tables(Rows(1..Len(FlightKeys), JoinNewPrices)))

\* The first flight key at every price of OldPrices, respectively
\* NewPrices, for the arithmetic and the cut points, and the second at one
\* price, so that tables without a common key occur.
InitPrices ==
    InitWith(Tables(Rows({1}, OldPrices) \cup Rows({2}, {80})),
             Tables(Rows({1}, NewPrices) \cup Rows({2}, {84})))

Fail(e) ==
    /\ pc' = "failed"
    /\ error' = e

\* compare_snapshots(date1, date2) with both files there.
CompareSnapshots ==
    /\ pc = "start"
    /\ SnapshotExists(date1) /\ SnapshotExists(date2)
    /\ comparison_df' = compare_snapshots(load_snapshot(date1), load_snapshot(date2))
    /\ pc' = "compared"
    /\ UNCHANGED <<snapshots, ota_analysis, route_analysis, results_dir, error>>

\* compare_snapshots(date1, date2) with a file missing: load_snapshot raises.
SnapshotNotFound ==
    /\ pc = "start"
    /\ ~SnapshotExists(date1) \/ ~SnapshotExists(date2)
    /\ Fail("FileNotFoundError")
    /\ UNCHANGED <<snapshots, comparison_df, ota_analysis, route_analysis, results_dir>>

AnalyzeOta ==
    /\ pc = "compared"
    /\ ota_analysis' \in analyze_ota_changes(comparison_df)
    /\ pc' = "ota"
    /\ UNCHANGED <<snapshots, comparison_df, route_analysis, results_dir, error>>

AnalyzeRoute ==
    /\ pc = "ota"
    /\ route_analysis' \in analyze_route_changes(comparison_df)
    /\ pc' = "route"
    /\ UNCHANGED <<snapshots, comparison_df, ota_analysis, results_dir, error>>

\* create_comparison_visualizations: the summary panel computes
\* changed_flights / total_flights * 100 with Python integers, which raises
\* ZeroDivisionError for an empty table, before the chart is saved.
total_flights == Len(comparison_df)

SummaryDividesByZero ==
    /\ pc = "route"
    /\ total_flights = 0
    /\ Fail("ZeroDivisionError")
    /\ UNCHANGED <<snapshots, comparison_df, ota_analysis, route_analysis, results_dir>>

\* The plotting library raises while the figure is drawn or saved.
RenderFails ==
    /\ pc = "route"
    /\ Fail("RenderError")
    /\ UNCHANGED <<snapshots, comparison_df, ota_analysis, route_analysis, results_dir>>

\* plt.savefig(filepath, ...)
SaveChart ==
    /\ pc = "route"
    /\ total_flights # 0
    /\ results_dir' = results_dir \cup {chart_file}
    /\ pc' = "chart"
    /\ UNCHANGED <<snapshots, comparison_df, ota_analysis, route_analysis, error>>

\* One to_csv call: it writes the file, or raises OSError and writes none.
Save(from, file, to) ==
    /\ pc = from
    /\ results_dir' = results_dir \cup {file}
    /\ pc' = to
    /\ UNCHANGED <<snapshots, comparison_df, ota_analysis, route_analysis, error>>

SaveFails(from) ==
    /\ pc = from
    /\ Fail("OSError")
    /\ UNCHANGED <<snapshots, comparison_df, ota_analysis, route_analysis, results_dir>>

SaveDetailed == Save("chart", results_file, "detailed")
SaveDetailedFails == SaveFails("chart")
SaveOta == Save("detailed", ota_file, "ota_saved")
SaveOtaFails == SaveFails("detailed")
SaveRoute == Save("ota_saved", route_file, "done")
SaveRouteFails == SaveFails("ota_saved")

Next ==
    \/ CompareSnapshots
    \/ SnapshotNotFound
    \/ AnalyzeOta
    \/ AnalyzeRoute
    \/ SummaryDividesByZero
    \/ RenderFails
    \/ SaveChart
    \/ SaveDetailed
    \/ SaveDetailedFails
    \/ SaveOta
    \/ SaveOtaFails
    \/ SaveRoute
    \/ SaveRouteFails

Spec == Init /\ [][Next]_vars

SpecPrices == InitPrices /\ [][Next]_vars

---------------------------------------------------------------------------
(* Properties *)

\* The stages of a run: the delta table, the agent table and the route
\* table have been computed.
Compared == pc # "start" /\ error # "FileNotFoundError"
OtaAnalyzed == Compared /\ pc # "compared"
RouteAnalyzed == OtaAnalyzed /\ pc # "ota"

RECURSIVE SumSeq(_)
SumSeq(ints) == IF Len(ints) = 0 THEN 0 ELSE Head(ints) + SumSeq(Tail(ints))

\* The number of rows of table t that satisfy the flight key k.
Mult(t, k) == Cardinality({i \in 1..Len(t) : Key(t[i]) = Key(k)})

\* The number of matched pairs of key k: mult_old(k) x mult_new(k).
Matched(k) == Mult(load_snapshot(date1), k) * Mult(load_snapshot(date2), k)

KeyIndices == 1..Len(FlightKeys)

\* The matched pairs of the keys of the given indices.
MatchedOver(keys) ==
    SumSeq([i \in KeyIndices |->
              IF i \in keys THEN Matched(FlightKeys[i]) ELSE 0])

\* The rows of the summary table t for the group key v of column col, and
\* their total_flights.
GroupRows(t, col, v) == {i \in 1..Len(t) : t[i][col] = v}
GroupTotal(t, col, v) ==
    SumSeq([i \in 1..Len(t) |->
              IF t[i][col] = v THEN t[i].total_flights ELSE 0])

\* A group appears, once, in a summary table exactly if it has matched
\* pairs, and then with their number.
AggregatesMatched(t, col, v, n) ==
    /\ GroupTotal(t, col, v) = n
    /\ Cardinality(GroupRows(t, col, v)) = IF n > 0 THEN 1 ELSE 0

\* C1: compare_snapshots is a full inner equality join on (origin,
\* destination, depart_date, gate): for every flight key k the delta table
\* holds exactly mult_old(k) x mult_new(k) records, so none for a key of
\* one snapshot only, and each agent and each route is aggregated over
\* exactly the matched pairs of its keys.
C1_InnerJoin ==
    /\ Compared =>
         \A i \in KeyIndices :
            Mult(comparison_df, FlightKeys[i]) = Matched(FlightKeys[i])
    /\ OtaAnalyzed =>
         \A g \in {FlightKeys[i].gate : i \in KeyIndices} :
            AggregatesMatched(ota_analysis, "gate", g,
                              MatchedOver({i \in KeyIndices :
                                              FlightKeys[i].gate = g}))
    /\ RouteAnalyzed =>
         \A j \in KeyIndices :
            AggregatesMatched(
                route_analysis, "route",
                FlightKeys[j].origin \o " → " \o FlightKeys[j].destination,
                MatchedOver({i \in KeyIndices :
                    /\ FlightKeys[i].origin = FlightKeys[j].origin
                    /\ FlightKeys[i].destination = FlightKeys[j].destination}))

\* A finished run in which one key fans out to two records and another
\* key, present in one snapshot only, has none.
C1_Witness ==
    /\ pc = "done"
    /\ \E i, j \in KeyIndices :
          /\ Mult(load_snapshot(date1), FlightKeys[i]) = 2
          /\ Mult(comparison_df, FlightKeys[i]) = 2
          /\ Mult(load_snapshot(date2), FlightKeys[j]) = 1
          /\ Mult(load_snapshot(date1), FlightKeys[j]) = 0
          /\ Mult(comparison_df, FlightKeys[j]) = 0

\* C2: for every DeltaRecord with a defined changePct (priceOld # 0) the
\* bucket follows changePct = 100 * (priceNew - priceOld) / priceOld with
\* each cut point in the lower bucket: <= -5 Major Drop, (-5, -1] Minor
\* Drop, (-1, 1] Stable, (1, 5] Minor Increase, > 5 Major Increase; 80 -> 84
\* has priceDiff 4, changePct 5 and is a Minor Increase.
C2_Buckets ==
    Compared =>
      \A i \in 1..Len(comparison_df) :
        LET r == comparison_df[i]
            o == r.price_eur_old
            p == 100 * (r.price_eur_new - r.price_eur_old)
        IN  /\ o > 0 =>
                /\ r.change_pct.kind = "num"
                /\ r.change_pct.n * o = p * r.change_pct.d
                /\ r.change_type =
                     IF p <= -5 * o THEN "Major Drop (>5%)"
                     ELSE IF p <= -1 * o THEN "Minor Drop (1-5%)"
                     ELSE IF p <= o THEN "Stable (±1%)"
                     ELSE IF p <= 5 * o THEN "Minor Increase (1-5%)"
                     ELSE "Major Increase (>5%)"
            /\ (o = 80 /\ r.price_eur_new = 84) =>
                /\ r.price_diff = 4
                /\ r.change_pct = [kind |-> "num", n |-> 5, d |-> 1]
                /\ r.change_type = "Minor Increase (1-5%)"

\* A finished run with a record on the cut point 5 (80 -> 84, Minor
\* Increase) and one on the cut point -5 (80 -> 76, Major Drop).
C2_Witness ==
    /\ pc = "done"
    /\ \E i, j \in 1..Len(comparison_df) :
          /\ comparison_df[i].price_eur_old = 80
          /\ comparison_df[i].price_eur_new = 84
          /\ comparison_df[i].change_type = "Minor Increase (1-5%)"
          /\ comparison_df[j].price_eur_old = 80
          /\ comparison_df[j].price_eur_new = 76
          /\ comparison_df[j].change_type = "Major Drop (>5%)"

\* The rows of table t with the key and the price of the record r taken
\* from its column col.
PricedRows(t, r, col) ==
    Cardinality({i \in 1..Len(t) : Key(t[i]) = Key(r) /\ t[i].price_eur = r[col]})

\* C4: every DeltaRecord has priceDiff = priceNew - priceOld, priceNew the
\* price of the matched row of the date2 snapshot and priceOld that of the
\* matched row of the date1 snapshot: the records of one key and one pair
\* of prices are as many as the pairs of such rows.
C4_PriceDiff ==
    Compared =>
      \A i \in 1..Len(comparison_df) :
        LET r == comparison_df[i]
            same == {j \in 1..Len(comparison_df) :
                        /\ Key(comparison_df[j]) = Key(r)
                        /\ comparison_df[j].price_eur_new = r.price_eur_new
                        /\ comparison_df[j].price_eur_old = r.price_eur_old}
        IN  /\ r.price_diff = r.price_eur_new - r.price_eur_old
            /\ Cardinality(same) =
                 PricedRows(load_snapshot(date2), r, "price_eur_new")
                   * PricedRows(load_snapshot(date1), r, "price_eur_old")

\* A finished run with a record whose price rose (80 -> 84, priceDiff 4)
\* and a record whose price fell (84 -> 76, priceDiff -8).
C4_Witness ==
    /\ pc = "done"
    /\ \E i, j \in 1..Len(comparison_df) :
          /\ comparison_df[i].price_eur_old = 80
          /\ comparison_df[i].price_eur_new = 84
          /\ comparison_df[i].price_diff = 4
          /\ comparison_df[j].price_eur_old = 84
          /\ comparison_df[j].price_eur_new = 76
          /\ comparison_df[j].price_diff = -8

\* C5: the total_flights of the agent groups sum to the number of
\* DeltaRecords, and so do those of the route groups.
C5_CountsPartition ==
    /\ OtaAnalyzed =>
         SumSeq(Column(ota_analysis, "total_flights")) = Len(comparison_df)
    /\ RouteAnalyzed =>
         SumSeq(Column(route_analysis, "total_flights")) = Len(comparison_df)

\* A finished run whose records fall into two agent groups and two route
\* groups.
C5_Witness ==
    /\ pc = "done"
    /\ Len(comparison_df) >= 2
    /\ Len(ota_analysis) = 2
    /\ Len(route_analysis) = 2

\* The changePct values of the agent group g of the delta table.
GroupPcts(g) == Column(Group(comparison_df, "gate", g), "change_pct")

\* c hundredths is a nearest multiple of 0.01 to the finite value m.
NearestHundredth(m, c) ==
    LET w == m.n \div m.d
        f == m.n % m.d
        e == c - 100 * w
    IN  /\ (2 * e - 1) * m.d <= 200 * f
        /\ 200 * f <= (2 * e + 1) * m.d

\* C3: every agent group is labelled from its mean changePct x itself,
\* not from a rounded value: x > 5 Aggressive Increase, 1 < x <= 5 Moderate
\* Increase, |x| <= 1 Stable, -5 <= x < -1 Moderate Decrease, x < -5
\* Aggressive Decrease.
C3_StrategyFromMean ==
    OtaAnalyzed =>
      \A i \in 1..Len(ota_analysis) :
        LET row == ota_analysis[i]
            m == mean(GroupPcts(row.gate))
        IN  m.kind = "num" =>
              row.pricing_strategy =
                IF m.n > 5 * m.d THEN "Aggressive Increase"
                ELSE IF m.n > m.d THEN "Moderate Increase"
                ELSE IF Abs(m.n) <= m.d THEN "Stable"
                ELSE IF m.n >= -5 * m.d THEN "Moderate Decrease"
                ELSE "Aggressive Decrease"

\* The labelling the code implements: every agent group is labelled from
\* its mean changePct rounded to two decimals, x (avg_change_pct): x > 5
\* Aggressive Increase, 1 < x <= 5 Moderate Increase, |x| <= 1 Stable,
\* -5 < x < -1 Moderate Decrease, x <= -5 Aggressive Decrease, and a group
\* without a mean (nan) Aggressive Decrease; a group of two records with
\* changePct 10 and -10 has count 2, mean 0.0 and label Stable.
StrategyFromRoundedMean ==
    OtaAnalyzed =>
      \A i \in 1..Len(ota_analysis) :
        LET row == ota_analysis[i]
            pcts == GroupPcts(row.gate)
            m == mean(pcts)
            x == row.avg_change_pct
        IN  /\ row.total_flights = Len(pcts)
            /\ x.kind = m.kind
            /\ m.kind = "num" => NearestHundredth(m, x.c)
            /\ row.pricing_strategy =
                 IF x.kind = "inf" THEN "Aggressive Increase"
                 ELSE IF x.kind # "num" THEN "Aggressive Decrease"
                 ELSE IF x.c > 500 THEN "Aggressive Increase"
                 ELSE IF x.c > 100 THEN "Moderate Increase"
                 ELSE IF x.c >= -100 THEN "Stable"
                 ELSE IF x.c > -500 THEN "Moderate Decrease"
                 ELSE "Aggressive Decrease"
            /\ (/\ Len(pcts) = 2
                /\ {pcts[1], pcts[2]} = {[kind |-> "num", n |-> 10, d |-> 1],
                                        [kind |-> "num", n |-> -10, d |-> 1]}) =>
                 /\ row.total_flights = 2
                 /\ x = [kind |-> "num", c |-> 0]
                 /\ row.pricing_strategy = "Stable"

\* A finished run with an agent group whose mean lies below -1 and rounds
\* to -1.00, labelled Stable.
RoundedMeanDecides ==
    /\ pc = "done"
    /\ \E i \in 1..Len(ota_analysis) :
          LET m == mean(GroupPcts(ota_analysis[i].gate))
          IN  /\ m.kind = "num"
              /\ m.n < -1 * m.d
              /\ ota_analysis[i].avg_change_pct = [kind |-> "num", c |-> -100]
              /\ ota_analysis[i].pricing_strategy = "Stable"

\* Both snapshots are there and share no flight key.
NoCommonKey ==
    /\ SnapshotExists(date1) /\ SnapshotExists(date2)
    /\ \A i \in KeyIndices : Matched(FlightKeys[i]) = 0

\* C6: a run over two non-empty snapshots without a common flight key has
\* an empty delta table and summary tables of zero total count, and no
\* step of it divides by zero.
C6_EmptyJoinCompletes ==
    NoCommonKey =>
      /\ Compared => Len(comparison_df) = 0
      /\ OtaAnalyzed => SumSeq(Column(ota_analysis, "total_flights")) = 0
      /\ RouteAnalyzed => SumSeq(Column(route_analysis, "total_flights")) = 0
      /\ error # "ZeroDivisionError"

\* C7: every DeltaRecord whose priceOld is zero is in the bucket
\* "Undefined".
C7_UndefinedBucket ==
    Compared =>
      \A i \in 1..Len(comparison_df) :
        comparison_df[i].price_eur_old = 0 =>
          comparison_df[i].change_type = "Undefined"

SingletonStdZero(t) ==
    \A i \in 1..Len(t) :
      t[i].total_flights = 1 =>
        t[i].std_price_diff = [kind |-> "num", n |-> 0, d |-> 1]

\* C8: in both summary tables a group of exactly one DeltaRecord has
\* std_price_diff zero.
C8_SingletonStdZero ==
    /\ OtaAnalyzed => SingletonStdZero(ota_analysis)
    /\ RouteAnalyzed => SingletonStdZero(route_analysis)

\* The table t is in descending order of avg_change_pct, groups of equal
\* avg_change_pct in the ascending order keys of their key in column col.
SortedWithTies(t, col, keys) ==
    \A i, j \in 1..Len(t) :
      (/\ i < j
       /\ t[i].avg_change_pct.kind # "nan"
       /\ t[j].avg_change_pct.kind # "nan") =>
        /\ ~RoundedLess(t[i].avg_change_pct, t[j].avg_change_pct)
        /\ t[i].avg_change_pct = t[j].avg_change_pct =>
             (CHOOSE a \in 1..Len(keys) : keys[a] = t[i][col])
               < (CHOOSE b \in 1..Len(keys) : keys[b] = t[j][col])

\* C9: both summary tables are ordered by avg_change_pct descending, equal
\* avg_change_pct by group key ascending.
C9_SortedWithTies ==
    /\ OtaAnalyzed => SortedWithTies(ota_analysis, "gate", SortedGates)
    /\ RouteAnalyzed => SortedWithTies(route_analysis, "route", SortedRoutes)

\* C10: a failed run leaves none or all of its outputs in the results
\* directory.
C10_AllOrNothing ==
    pc = "failed" => results_dir \cap Outputs \in {{}, Outputs}

\* The dates whose snapshot file is not there.
Absent == {d \in Dates : snapshots[d] = Missing}

\* C11: with the snapshot file of date1 or of date2 missing the run does
\* nothing but abort with FileNotFoundError: no delta table, no summary
\* table, no file in the results directory; and a run whose snapshots are
\* both there never ends with that failure, so that of a run without a
\* common flight key is another one.
C11_SnapshotNotFound ==
    /\ Absent # {} =>
          /\ pc \in {"start", "failed"}
          /\ pc = "failed" => error = "FileNotFoundError"
          /\ comparison_df = <<>>
          /\ ota_analysis = <<>>
          /\ route_analysis = <<>>
          /\ results_dir = {}
    /\ Absent = {} => error # "FileNotFoundError"

\* The run has aborted with date1 loaded and the file of date2 missing.
C11_Witness ==
    /\ Absent = {date2}
    /\ Len(load_snapshot(date1)) > 0
    /\ pc = "failed"
    /\ error = "FileNotFoundError"

\* A run over two stored snapshots without a common flight key has ended,
\* with a failure that is not the snapshot-not-found one.
NoCommonKeyFailure ==
    /\ Absent = {}
    /\ \A i \in KeyIndices : Matched(FlightKeys[i]) = 0
    /\ pc = "failed"
    /\ error = "ZeroDivisionError"

\* A record of a delta table as a matched pair: its flight key, its two
\* prices and their difference; and the same pair seen from the other
\* side, the prices exchanged and the difference negated.
Pair(r) ==
    [key |-> Key(r), priceOld |-> r.price_eur_old,
     priceNew |-> r.price_eur_new, priceDiff |-> r.price_diff]

Mirror(r) ==
    [key |-> Key(r), priceOld |-> r.price_eur_new,
     priceNew |-> r.price_eur_old, priceDiff |-> -r.price_diff]

\* The number of times x occurs in the sequence s.
Occurrences(s, x) == Cardinality({i \in 1..Len(s) : s[i] = x})

\* The sequences s and t hold the same elements the same number of times.
SameMultiset(s, t) ==
    /\ Len(s) = Len(t)
    /\ \A i \in 1..Len(s) : Occurrences(s, s[i]) = Occurrences(t, s[i])

\* The delta table of the comparison with the two snapshots exchanged.
SwappedComparison ==
    compare_snapshots(load_snapshot(date2), load_snapshot(date1))

\* C12: compare_snapshots over the exchanged snapshots yields the same
\* multiset of matched pairs, each with priceOld and priceNew exchanged and
\* priceDiff negated.
C12_SwapMirrors ==
    Compared =>
      SameMultiset([i \in 1..Len(comparison_df) |-> Mirror(comparison_df[i])],
                   [i \in 1..Len(SwappedComparison) |->
                      Pair(SwappedComparison[i])])

\* A key with two rows in the older and one in the newer snapshot has been
\* compared, and its price has changed.
C12_Witness ==
    /\ Compared
    /\ \E i \in KeyIndices :
          /\ Mult(load_snapshot(date1), FlightKeys[i]) = 2
          /\ Mult(load_snapshot(date2), FlightKeys[i]) = 1
          /\ Mult(SwappedComparison, FlightKeys[i]) = 2
    /\ \E j \in 1..Len(comparison_df) : comparison_df[j].price_diff # 0

=============================================================================
